---- MODULE Spec2Model ----
(***************************************************************************)
(* Model of the IBM Granite integration layer of the backend:               *)
(*   - the IAM bearer-token cache (get_bearer_token),                       *)
(*   - the text-generation client (generate / generate_text),               *)
(*   - the plan assembler (EnhancedGraniteAPI.generate_implementation_plan),*)
(*   - the HTTP routes that answer with a plan or a health report.          *)
(* The repository holds several revisions of the same service; the model    *)
(* carries the ones that differ in behaviour, selected by `variant`:        *)
(*   "service"  : src/backend/main.py with src/backend/src/services         *)
(*                (granite_service.py: asyncio, aiohttp, failures raise)    *)
(*   "simple"   : src/backend/simple_main.py, the same services package     *)
(*   "final"    : src/backend/final_main.py (blocking requests, failures    *)
(*                return None / ""; ultimate_main_simple.py GraniteAPI has  *)
(*                the same get_bearer_token and generate)                   *)
(*   "ultimate" : src/backend/ultimate_main.py EnhancedGraniteAPI           *)
(* Time is the reading of time.time() in whole seconds.                     *)
(***************************************************************************)
EXTENDS Integers, Sequences, FiniteSets, TLC

(* ---------------- bounds of the model ---------------- *)
NCallers == 2
MaxTime == 6600
MaxIamRequests == 3

(* ---------------- program constants ---------------- *)
SAFETY_MARGIN == 300
DEFAULT_EXPIRES_IN == 3600
IAM_TIMEOUT == 30
GEN_TIMEOUT_SERVICE == 120
GEN_TIMEOUT_ULTIMATE == 180

Callers == 1..NCallers
Variants == {"service", "simple", "final", "ultimate"}

\* inputs drawn by the environment
TimeSteps == {3299, 3300}
ExpiresInSet == {300, 3600}

\* temperatures are carried in tenths (7 stands for 0.7)
DirectTemperatures == {-1, 0, 7}
\* characters of a generated text: a blank and a letter
SP == " "
GenTexts == {<<>>, <<SP>>, <<"a">>, <<"a", SP>>}
\* prompts a route can pass to generate directly
DirectPrompts == {<<>>, <<SP>>, <<"a">>}
PlanPrompt == <<"a">>

\* a bearer token as IAM knows it: when it was issued and how long it lives
NoToken == [iss |-> -1, ttl |-> 0]
RealExpiry(tok) == tok.iss + tok.ttl

\* what the IAM POST can come back with
IamKinds == {"ok", "nokey", "non200", "neterr"}

\* the outcome of one get_bearer_token call
NoRet == [kind |-> "pending", val |-> NoToken, src |-> "-"]

\* what the generation POST can come back with
GenKinds == {"results", "no_generated_text", "no_results", "empty_results",
             "results_not_object", "non200", "neterr"}

\* arguments of one generate call, the parameters it sent, its outcome
NoArgs == [prompt |-> <<>>, max_tokens |-> 0, temperature |-> 0]
NoPayload == [decoding_method |-> "unsent"]
NoGenRet == [kind |-> "pending", val |-> <<>>, why |-> "-"]
NoPlanRet == [success |-> FALSE, plan |-> <<>>, set |-> FALSE]

\* what a plan request can carry and meet
UrlKinds == {"absent", "empty", "github"}
JiraAnswers == {"200", "404", "500", "neterr"}
ScanKinds == {"ok", "failed"}
\* lengths of the issue description Jira answers with, in characters
DescLens == {100, 9000}
NoReq == [has_key |-> FALSE, url |-> "-", jira |-> "-", scan |-> "-", desc |-> 0]
\* get_issue: the issue, a mock issue, None, or an exception with a status
\* (0 for a plain Exception)
NoIssue == [kind |-> "-", status |-> 0]
NoChars == [first |-> 0, retry |-> 0]
NoHttp == [status |-> 0, success |-> FALSE, plan |-> <<>>, repository_analyzed |-> FALSE]
\* the shared repository analyzer of simple_main.py. One repository; the
\* GETs a scan sends: the repository, its languages, its root directory and
\* the configuration files found there
NRequests == 2
Requests == 1..NRequests
NConfigFiles == 2
GitUrls == {<<"repo", 0>>, <<"languages", 0>>, <<"contents", 0>>}
              \cup {<<"file", k>> : k \in 1..NConfigFiles}
GitAnswers == {"200", "403", "404", "500", "neterr"}
CACHE_SECONDS == 300
INITIAL_RATE_LIMIT_DELAY == 1
MAX_RATE_LIMIT_DELAY == 50
GitTimeSteps == {299, 300}
GitMaxTime == 300
NoEntry == -1
NoSession == [owner |-> 0, open |-> FALSE]
\* limited: a GET of this request was answered 403; after_limit: a GET was
\* sent after that; status: the HTTP status the route answered with;
\* cached: the request's last step took a body from the cache
NoScan == [pc |-> "idle", file |-> 0, limited |-> FALSE, after_limit |-> FALSE,
           status |-> 0, cached |-> FALSE]

\* the answer of GET /agile/1.0/backlog/issue: HTTP status and the
\* "success" field of its body (absent from an error body)
NoBacklog == [status |-> 0, success |-> "-"]
BoardAnswers == {"boards", "no_boards", "non200", "neterr"}
BacklogAnswers == {"200", "non200", "neterr"}

\* GitHub URLs as sequences of pieces no regular expression or split of the
\* parsers cuts in two: the accepted prefixes spelled out, then a short path
HTTPS_PREFIX == <<"https:", "/", "/", "github.com", "/">>
HTTP_PREFIX == <<"http:", "/", "/", "github.com", "/">>
SSH_PREFIX == <<"git@github.com:">>
PathPieces == {"/", ".git", "acme", "widgets", " "}
MaxPathLen == 4
RECURSIVE SeqsUpTo(_, _)
SeqsUpTo(S, n) ==
    IF n = 0 THEN {<<>>}
    ELSE LET shorter == SeqsUpTo(S, n - 1)
         IN  shorter \cup {Append(s, x) : s \in {t \in shorter : Len(t) = n - 1}, x \in S}
Urls == {p \o b : p \in {<<>>, HTTPS_PREFIX, HTTP_PREFIX, SSH_PREFIX},
                  b \in SeqsUpTo(PathPieces, MaxPathLen)}
\* what a parser gives: a pair ("dict"), None ("none") or ValueError ("raised")
NoMatch(kind) == [kind |-> kind, owner |-> <<>>, repo |-> <<>>]
NoParsed == [url |-> <<>>, ret |-> NoMatch("-")]

\* the text nodes of a one-paragraph description
MaxNodeLen == 2
MaxNodes == 2
NodeTexts == SeqsUpTo({SP, "a", "b"}, MaxNodeLen) \ {<<>>}
Paragraphs == SeqsUpTo(NodeTexts, MaxNodes) \ {<<>>}
NoAdf == [nodes |-> <<>>, flat |-> <<>>, again |-> <<>>]

\* the arguments of get_issues: a project key, and a status that is None,
\* empty or a status name
ProjectKeys == {"SCRUM", "AB"}
NoStatus == [given |-> FALSE, val |-> ""]
StatusFilters == {NoStatus} \cup {[given |-> TRUE, val |-> v] : v \in {"", "Done", "To Do"}}
NoJql == [key |-> "-", status |-> NoStatus, text |-> <<>>]

\* the pull requests validated: files changed, lines added, GitHub's
\* mergeable flag
PrShapes ==
    {[changed_files |-> 0, additions |-> 0, mergeable |-> FALSE],
     [changed_files |-> 2, additions |-> 300, mergeable |-> TRUE],
     [changed_files |-> 8, additions |-> 0, mergeable |-> TRUE],
     [changed_files |-> 8, additions |-> 0, mergeable |-> FALSE]}
\* how fetching the pull request from GitHub ends
PrFetches == {"ok", "bad_url", "no_details", "no_diff"}
\* what the marker lines of a non-blank Granite answer say: the words after
\* VALIDATION_STATUS: and MERGE_RECOMMENDATION:, the digits after
\* COMPLETENESS_SCORE: (-1: no such line), the items under MERGE_BLOCKERS:
Verdicts ==
    {[status |-> "-", score |-> -1, rec |-> "-", blockers |-> 0],
     [status |-> "approved", score |-> 90, rec |-> "ready", blockers |-> 0],
     [status |-> "approved", score |-> 90, rec |-> "ready", blockers |-> 1],
     [status |-> "rejected", score |-> 130, rec |-> "major", blockers |-> 1]}
\* the analysis prompt and the arguments analyze_pr_against_ticket passes
PrPrompt == <<"a">>
PrMaxTokens == 20000
PrTemperature == 2
NoPr == [changed_files |-> 0, additions |-> 0, mergeable |-> FALSE]
NoAnalysis == [validation_status |-> "-"]
\* the HTTP response of the PR-validation route and the pull request it holds
NoValidation == [status |-> 0, success |-> FALSE, pr |-> NoPr, analysis |-> NoAnalysis]

\* the health report: HTTP status and the status reported per dependency
NoHealth == [status |-> 0, granite |-> "-", jira |-> "-", github |-> "-"]

VARIABLES
    variant,            \* which revision of the service runs
    api_key_set,        \* self.api_key is non-empty
    now,                \* time.time()
    bearer_token,       \* self.bearer_token (NoToken models None)
    token_expires_at,   \* self.token_expires_at
    cache_obtained_at,  \* history: time.time() when the cache was last written
    cache_expires_in,   \* history: expires_in used when the cache was last written
    iam_requests,       \* POSTs sent to the IAM token endpoint so far
    pc,                 \* position of each caller
    op,                 \* top-level operation each caller runs
    sent_at,            \* when the caller's outstanding HTTP request was sent
    tok_ret,            \* what get_bearer_token gave the caller
    project_id_set,     \* self.project_id is non-empty
    purpose,            \* which generate call of the operation is running
    gen_args,           \* prompt, max_tokens, temperature of the running generate
    payload,            \* payload["parameters"] of the generation POST
    gen_ret,            \* what generate gave its caller
    plan_calls,         \* plan-generation calls made to generate by this request
    first_why,          \* history: how the full-prompt generate call ended
    plan_ret,           \* what generate_implementation_plan returned
    jira_configured,    \* the Jira client holds credentials (and, in the
                        \* services package, passed its start-up probe)
    req,                \* the plan request and what it met: body, Jira, scan
    issue_ret,          \* what get_issue gave the route
    prompt_chars,       \* lengths of the prompts the plan operation sent
    http,               \* the HTTP response of the plan route
    health,             \* the HTTP response of the health route
    session,            \* repo_analyzer.session: who opened it, is it open
    repo_cache,         \* repo_analyzer.cache: when each URL's body was stored
    rate_limit_delay,   \* repo_analyzer.rate_limit_delay, in tenths of a second
    analysis,           \* each repository-analysis request: position and outcome
    backlog,            \* the HTTP response of the agile-backlog route
    validation,         \* the HTTP response of the PR-validation route
    parsed,             \* the last GitHub URL parsed and what the parser gave
    jql,                \* the last issue search: project, status filter, JQL built
    adf                 \* a description in ADF, its plain text, and the plain
                        \* text of that text wrapped as a comment body

tokvars == <<iam_requests, sent_at, tok_ret>>
genvars == <<purpose, gen_args, payload, gen_ret>>
planvars == <<plan_calls, first_why, plan_ret, req, issue_ret, prompt_chars, http, health>>

vars == <<variant, api_key_set, now, bearer_token, token_expires_at,
          cache_obtained_at, cache_expires_in, iam_requests, pc, op, sent_at, tok_ret,
          project_id_set, purpose, gen_args, payload, gen_ret,
          plan_calls, first_why, plan_ret,
          jira_configured, req, issue_ret, prompt_chars, http, health,
          session, repo_cache, rate_limit_delay, analysis,
          backlog, validation, parsed, adf, jql>>

gitvars == <<session, repo_cache, rate_limit_delay, analysis>>
apivars == <<backlog, validation, parsed, adf, jql>>
config == <<variant, api_key_set, project_id_set, jira_configured>>
cache == <<bearer_token, token_expires_at, cache_obtained_at, cache_expires_in>>

\* the apps whose Granite and Jira clients come from src/services
ServiceClient == variant \in {"service", "simple"}

\* start-up. main.py builds the Jira, GitHub, Granite and PDF services one
\* after the other inside a single try block, so a constructor that raises
\* leaves every later service at None; simple_main.py builds each service in
\* a try block of its own; final_main.py and ultimate_main.py build theirs
\* at import and those constructors never raise. The constructors of the
\* services package raise without credentials (Jira: email and token and a
\* 200 from /myself; Granite: the API key).
JiraServiceUp == ServiceClient => jira_configured
GraniteServiceUp ==
    CASE variant = "service" -> jira_configured /\ api_key_set
      [] variant = "simple" -> api_key_set
      [] OTHER -> TRUE

\* blocking `requests` calls inside `async def` routes hold the event loop:
\* only the asyncio service lets a second request run while one waits
Concurrent == ServiceClient
OthersIdle(c) == \A o \in Callers \ {c} : pc[o] = "idle"
MayStart(c) == pc[c] = "idle" /\ (Concurrent \/ OthersIdle(c))

\* timeout of the IAM POST: aiohttp timeout=30, requests timeout=30, none
HasIamTimeout == ServiceClient \/ variant = "ultimate"
IamTimedOut(c) == HasIamTimeout /\ now - sent_at[c] > IAM_TIMEOUT

\* mutants of the cache test: boundary included, comparison inverted
CacheValid_Inclusive == bearer_token # NoToken /\ now <= token_expires_at
CacheValid_Inverted == bearer_token # NoToken /\ now > token_expires_at

\* `self.bearer_token and time.time() < self.token_expires_at`
CacheValid == bearer_token # NoToken /\ now < token_expires_at

\* token_data.get('expires_in', 3600)
ExpiresIn(has_exp, ttl) == IF has_exp THEN ttl ELSE DEFAULT_EXPIRES_IN

\* time.time() + expires_in - 300
NewExpiresAt(expires_in) == now + expires_in - SAFETY_MARGIN

Init ==
    /\ variant \in Variants
    /\ api_key_set \in BOOLEAN
    /\ jira_configured \in BOOLEAN
    /\ now = 0
    /\ bearer_token = NoToken
    /\ token_expires_at = 0
    /\ cache_obtained_at = 0
    /\ cache_expires_in = 0
    /\ iam_requests = 0
    /\ pc = [c \in Callers |-> "idle"]
    /\ op = [c \in Callers |-> "none"]
    /\ sent_at = [c \in Callers |-> 0]
    /\ tok_ret = [c \in Callers |-> NoRet]
    /\ project_id_set \in BOOLEAN
    /\ (variant # "ultimate" => project_id_set)
    /\ purpose = [c \in Callers |-> "-"]
    /\ gen_args = [c \in Callers |-> NoArgs]
    /\ payload = [c \in Callers |-> NoPayload]
    /\ gen_ret = [c \in Callers |-> NoGenRet]
    /\ plan_calls = [c \in Callers |-> 0]
    /\ first_why = [c \in Callers |-> "-"]
    /\ plan_ret = [c \in Callers |-> NoPlanRet]
    /\ req = [c \in Callers |-> NoReq]
    /\ issue_ret = [c \in Callers |-> NoIssue]
    /\ prompt_chars = [c \in Callers |-> NoChars]
    /\ http = [c \in Callers |-> NoHttp]
    /\ health = [c \in Callers |-> NoHealth]
    /\ session = NoSession
    /\ repo_cache = [u \in GitUrls |-> NoEntry]
    /\ rate_limit_delay = INITIAL_RATE_LIMIT_DELAY
    /\ analysis = [r \in Requests |-> NoScan]
    /\ backlog = [c \in Callers |-> NoBacklog]
    /\ validation = [c \in Callers |-> NoValidation]
    /\ parsed = NoParsed
    /\ adf = NoAdf
    /\ jql = NoJql

\* get_bearer_token up to its first suspension: cache hit, missing key, or POST
EnterGetBearerToken(c) ==
    IF CacheValid
    THEN /\ tok_ret' = [tok_ret EXCEPT ![c] =
                [kind |-> "token", val |-> bearer_token, src |-> "cache"]]
         /\ pc' = [pc EXCEPT ![c] = "tok_ret"]
         /\ UNCHANGED <<iam_requests, sent_at>>
    ELSE IF variant = "ultimate" /\ ~api_key_set
    THEN /\ tok_ret' = [tok_ret EXCEPT ![c] =
                [kind |-> "none", val |-> NoToken, src |-> "nokey"]]
         /\ pc' = [pc EXCEPT ![c] = "tok_ret"]
         /\ UNCHANGED <<iam_requests, sent_at>>
    ELSE /\ iam_requests < MaxIamRequests
         /\ iam_requests' = iam_requests + 1
         /\ sent_at' = [sent_at EXCEPT ![c] = now]
         /\ pc' = [pc EXCEPT ![c] = "tok_wait"]
         /\ UNCHANGED tok_ret

\* a caller (health check, connection test) asks for a token directly
CallGetBearerToken(c) ==
    /\ GraniteServiceUp
    /\ MayStart(c)
    /\ op' = [op EXCEPT ![c] = "token"]
    /\ EnterGetBearerToken(c)
    /\ UNCHANGED <<config, apivars, gitvars, now, cache, genvars, planvars>>

\* how a failed exchange reaches the caller: an exception or None
FailKind == IF ServiceClient THEN "raised" ELSE "none"

\* mutant: the token is written and the expiry is left for later
StoreToken_TokenOnly(c, tok, expires_in) ==
    /\ bearer_token' = tok
    /\ token_expires_at' = token_expires_at
    /\ cache_obtained_at' = now
    /\ cache_expires_in' = expires_in
    /\ tok_ret' = [tok_ret EXCEPT ![c] =
          [kind |-> "token", val |-> tok, src |-> "refresh"]]

\* the cache write of a 200 answer and the value returned: the two
\* assignments follow `await response.json()` with no await between them
StoreToken(c, tok, expires_in) ==
    /\ bearer_token' = tok
    /\ token_expires_at' = NewExpiresAt(expires_in)
    /\ cache_obtained_at' = now
    /\ cache_expires_in' = expires_in
    /\ tok_ret' = [tok_ret EXCEPT ![c] =
          [kind |-> "token", val |-> tok, src |-> "refresh"]]

\* mutant: a failed exchange drops the cached token
ExchangeFailed_Clears(c) ==
    /\ bearer_token' = NoToken
    /\ UNCHANGED <<token_expires_at, cache_obtained_at, cache_expires_in>>
    /\ tok_ret' = [tok_ret EXCEPT ![c] =
          [kind |-> FailKind, val |-> NoToken, src |-> "failed"]]

\* a non-200 answer, a body without access_token, a connection error, a timeout
ExchangeFailed(c) ==
    /\ UNCHANGED cache
    /\ tok_ret' = [tok_ret EXCEPT ![c] =
          [kind |-> FailKind, val |-> NoToken, src |-> "failed"]]

\* get_bearer_token resumes with the outcome of the POST; IAM issued the
\* token somewhere between the sending of the request and this moment.
\* IAM grants a token only for an API key, and an answer that leaves
\* expires_in out carries a token of the standard lifetime.
ReceiveIamResponse(c) ==
    /\ pc[c] = "tok_wait"
    /\ \E k \in IamKinds, ttl \in ExpiresInSet, has_exp \in BOOLEAN,
          iss \in {sent_at[c], now} :
         /\ k = "ok" => api_key_set
         /\ ~has_exp => ttl = DEFAULT_EXPIRES_IN
         /\ IF k = "ok" /\ ~IamTimedOut(c)
            THEN StoreToken(c, [iss |-> iss, ttl |-> ttl], ExpiresIn(has_exp, ttl))
            ELSE ExchangeFailed(c)
    /\ pc' = [pc EXCEPT ![c] = "tok_ret"]
    /\ sent_at' = [sent_at EXCEPT ![c] = 0]
    /\ UNCHANGED <<config, apivars, gitvars, now, iam_requests, op, genvars, planvars>>

\* str.strip() on a text
RECURSIVE LStrip(_)
LStrip(s) == IF s # <<>> /\ Head(s) = SP THEN LStrip(Tail(s)) ELSE s
RECURSIVE RStrip(_)
RStrip(s) == IF s # <<>> /\ s[Len(s)] = SP THEN RStrip(SubSeq(s, 1, Len(s) - 1)) ELSE s
Strip(s) == RStrip(LStrip(s))

\* `not response or not response.strip()`
IsBlank(s) == s = <<>> \/ Strip(s) = <<>>

\* mutant: temperature is sent whatever the decoding method
Parameters_AlwaysTemperature(max_tokens, temperature) ==
    [decoding_method |-> IF temperature > 0 THEN "sample" ELSE "greedy",
     max_new_tokens |-> max_tokens,
     min_new_tokens |-> 0,
     stop_sequences |-> <<>>,
     repetition_penalty |-> 11,
     temperature |-> temperature]

\* payload["parameters"]: temperature is added only for decoding_method "sample"
Parameters(max_tokens, temperature) ==
    LET method == IF temperature > 0 THEN "sample" ELSE "greedy"
        base == [decoding_method |-> method,
                 max_new_tokens |-> max_tokens,
                 min_new_tokens |-> 0,
                 stop_sequences |-> <<>>,
                 repetition_penalty |-> IF variant = "final" THEN 10 ELSE 11]
    IN IF base.decoding_method = "sample"
       THEN base @@ [temperature |-> temperature]
       ELSE base

\* timeout of the generation POST: 120 s, 180 s in ultimate_main.py
GenTimeout == IF variant = "ultimate" THEN GEN_TIMEOUT_ULTIMATE ELSE GEN_TIMEOUT_SERVICE
GenTimedOut(c) == now - sent_at[c] > GenTimeout

\* default max_tokens of generate / generate_text
DefaultMaxTokens ==
    CASE ServiceClient -> 1500
      [] variant = "final" -> 200
      [] OTHER -> 3000

\* how generate ends when it cannot produce a text: the service raises,
\* the other revisions return ""
GenFailure(why) ==
    IF ServiceClient
    THEN [kind |-> "raised", val |-> <<>>, why |-> why]
    ELSE [kind |-> "text", val |-> <<>>, why |-> why]

\* generate up to its first suspension: input checks, then get_bearer_token
EnterGenerate(c, prompt, max_tokens, temperature) ==
    /\ gen_args' = [gen_args EXCEPT ![c] =
          [prompt |-> prompt, max_tokens |-> max_tokens, temperature |-> temperature]]
    /\ payload' = [payload EXCEPT ![c] = NoPayload]
    /\ IF variant = "ultimate" /\ IsBlank(prompt)
       THEN /\ gen_ret' = [gen_ret EXCEPT ![c] = GenFailure("blank_prompt")]
            /\ pc' = [pc EXCEPT ![c] = "gen_ret"]
            /\ UNCHANGED tokvars
       ELSE IF variant = "ultimate" /\ (~api_key_set \/ ~project_id_set)
       THEN /\ gen_ret' = [gen_ret EXCEPT ![c] = GenFailure("not_configured")]
            /\ pc' = [pc EXCEPT ![c] = "gen_ret"]
            /\ UNCHANGED tokvars
       ELSE /\ gen_ret' = [gen_ret EXCEPT ![c] = NoGenRet]
            /\ EnterGetBearerToken(c)

\* a route calls generate directly (test endpoints, ticket analysis)
CallGenerate(c) ==
    /\ GraniteServiceUp
    /\ MayStart(c)
    /\ op' = [op EXCEPT ![c] = "generate"]
    /\ purpose' = [purpose EXCEPT ![c] = "direct"]
    /\ \E prompt \in DirectPrompts, temperature \in DirectTemperatures :
         EnterGenerate(c, prompt, DefaultMaxTokens, temperature)
    /\ UNCHANGED <<config, apivars, gitvars, now, cache, planvars>>

\* generate continues after get_bearer_token returned: no token ends the
\* call, otherwise the payload is built and POSTed
AfterGetBearerToken(c) ==
    /\ pc[c] = "tok_ret" /\ op[c] # "token" /\ purpose[c] # "probe_token"
    /\ IF tok_ret[c].kind = "token"
       THEN /\ payload' = [payload EXCEPT ![c] =
                  Parameters(gen_args[c].max_tokens, gen_args[c].temperature)]
            /\ sent_at' = [sent_at EXCEPT ![c] = now]
            /\ pc' = [pc EXCEPT ![c] = "gen_wait"]
            /\ UNCHANGED gen_ret
       ELSE /\ gen_ret' = [gen_ret EXCEPT ![c] = GenFailure("token_failed")]
            /\ pc' = [pc EXCEPT ![c] = "gen_ret"]
            /\ UNCHANGED <<payload, sent_at>>
    /\ tok_ret' = [tok_ret EXCEPT ![c] = NoRet]
    /\ UNCHANGED <<config, apivars, gitvars, now, cache, iam_requests, op, purpose, gen_args, planvars>>

\* the text generate hands back for a 200 answer that carries results[0]
ReturnedText(text) ==
    CASE ServiceClient -> Strip(text)
      [] OTHER -> text

\* a 200 answer whose results[0] is not a JSON object: `.get` raises
\* AttributeError. final_main.py catches only RequestException around the
\* POST, so the error leaves generate; ultimate_main.py catches Exception
\* and returns ""; the service raises as for every failure
NotAnObject ==
    IF variant = "ultimate"
    THEN GenFailure("malformed")
    ELSE [kind |-> "raised", val |-> <<>>, why |-> "malformed"]

\* generate resumes with the outcome of the generation POST
ReceiveGenResponse(c) ==
    /\ pc[c] = "gen_wait"
    /\ \E k \in GenKinds, text \in GenTexts :
         gen_ret' = [gen_ret EXCEPT ![c] =
            IF GenTimedOut(c) THEN GenFailure("timeout")
            ELSE IF k = "neterr" THEN GenFailure("neterr")
            ELSE IF k = "non200" THEN GenFailure("non200")
            ELSE IF k \in {"no_results", "empty_results"} THEN GenFailure("malformed")
            ELSE IF k = "results_not_object" THEN NotAnObject
            ELSE IF k = "no_generated_text" THEN [kind |-> "text", val |-> <<>>, why |-> "ok"]
            ELSE [kind |-> "text", val |-> ReturnedText(text), why |-> "ok"]]
    /\ pc' = [pc EXCEPT ![c] = "gen_ret"]
    /\ sent_at' = [sent_at EXCEPT ![c] = 0]
    /\ UNCHANGED <<config, apivars, gitvars, now, cache, iam_requests, op, tok_ret, purpose, gen_args,
                   payload, planvars>>

\* the route that called generate directly takes the result
GenerateCallDone(c) ==
    /\ pc[c] = "gen_ret" /\ op[c] = "generate"
    /\ pc' = [pc EXCEPT ![c] = "done"]
    /\ UNCHANGED <<config, apivars, gitvars, now, cache, tokvars, op, genvars, planvars>>

\* mutant: a blank answer to the simplified prompt is retried as well
NextPurpose_RetryAgain(p, blank) ==
    CASE p = "discussion" -> "full"
      [] p \in {"full", "simple"} /\ blank -> "simple"
      [] OTHER -> "end"

\* what follows a generate call inside generate_implementation_plan: the
\* discussion summary is followed by the full prompt, a blank answer to the
\* full prompt by the simplified prompt, anything else ends the operation
NextPurpose(p, blank) ==
    CASE p = "discussion" -> "full"
      [] p = "full" /\ blank -> "simple"
      [] OTHER -> "end"

(* ---------------- the plan route ---------------- *)
\* `if len(prompt) > 8000`
PROMPT_BUDGET == 8000
\* characters of the fixed text of the prompts, the fields left out
FULL_TEMPLATE_CHARS == 453
SIMPLE_TEMPLATE_CHARS == 308
\* "\n\nPlease provide specific file changes and implementation steps."
TRUNCATION_NOTE_CHARS == 64
\* "\n\nTEAM NOTES: " + discussion_summary[:200] + "..."
TEAM_NOTES_CHARS == 217
\* the prompt of analyze_jira_ticket in final_main.py: it reads summary,
\* description, issuetype, priority and status at the top level of the Jira
\* answer, where Jira keeps them under "fields", so each one reads 'N/A'
FINAL_PROMPT_CHARS == 1460
\* the mock issue of an unconfigured JiraService: 'Mock issue: ' + a key of
\* seven characters, 'This is a mock issue for testing purposes'
MOCK_TITLE_CHARS == 19
MOCK_DESC_CHARS == 41
\* inputs: the summary of the issues Jira holds; framework name and the
\* "TARGET FILES" lines a successful repository scan contributes
TitleChars == 20
RepoFrameworkChars == 5
RepoFilesChars == 90
\* the plan simple_main.py answers with (a dict of fixed non-empty entries)
BasicPlan == <<"a">>

\* `ticket_data.get('description') or 'N/A'`
OrNA(n) == IF n = 0 THEN 3 ELSE n

\* framework: "unknown" / "Unknown" unless the scan succeeded
FrameworkChars(scan) == IF scan = "ok" THEN RepoFrameworkChars ELSE 7

\* create_optimized_implementation_prompt, by length
FullPromptChars(title, desc, scan, team) ==
    FULL_TEMPLATE_CHARS + title + OrNA(desc) + FrameworkChars(scan)
        + (IF scan = "ok" THEN RepoFilesChars ELSE 0) + team

\* `prompt[:8000] + "\n\nPlease provide ..."` when the prompt is too long
Truncated(n) ==
    IF n > PROMPT_BUDGET THEN PROMPT_BUDGET + TRUNCATION_NOTE_CHARS ELSE n

\* create_simplified_implementation_prompt, by length
SimplifiedPromptChars(title, desc, scan) ==
    SIMPLE_TEMPLATE_CHARS + title + OrNA(desc) + FrameworkChars(scan)

\* JiraService.get_issue against Jira's answer. ultimate_main.py: a mock
\* issue without credentials, None for every failure. final_main.py:
\* HTTPException(400) without credentials; the HTTPException raised for a
\* non-200 answer is caught by the method's own `except Exception` and
\* raised again as HTTPException(500). services/jira_service.py: a plain
\* Exception for every failure.
GetIssue(answer) ==
    CASE variant = "ultimate" ->
            IF ~jira_configured THEN [kind |-> "mock", status |-> 0]
            ELSE IF answer = "200" THEN [kind |-> "issue", status |-> 0]
            ELSE [kind |-> "none", status |-> 0]
      [] variant = "final" ->
            IF ~jira_configured THEN [kind |-> "raised", status |-> 400]
            ELSE IF answer = "200" THEN [kind |-> "issue", status |-> 0]
            ELSE [kind |-> "raised", status |-> 500]
      [] OTHER ->
            IF answer = "200" THEN [kind |-> "issue", status |-> 0]
            ELSE [kind |-> "raised", status |-> 0]

\* summary and description of the issue the route holds
IssueTitle(issue) == IF issue.kind = "mock" THEN MOCK_TITLE_CHARS ELSE TitleChars
IssueDesc(issue, desc) == IF issue.kind = "mock" THEN MOCK_DESC_CHARS ELSE desc

\* the status the route answers with before any generation, 0 when it goes
\* on. ultimate_main.py re-raises an HTTPException as it is; final_main.py
\* and simple_main.py catch it with `except Exception` and answer 500.
EarlyStatus(has_key, issue) ==
    CASE variant = "simple" /\ ~JiraServiceUp -> 503
      [] ~has_key -> IF variant = "ultimate" THEN 400 ELSE 500
      [] issue.kind = "none" -> 404
      [] issue.kind = "raised" -> 500
      [] OTHER -> 0

\* mutant: a request counts as analysed whatever it carried
RepositoryAnalyzed_Always(url, scan) == variant # "final"

\* repository_analyzed of the response. ultimate_main.py:
\* `bool(repo_analysis and repo_analysis.get("success"))`; simple_main.py:
\* `github_repo_url is not None`; final_main.py answers without the field
RepositoryAnalyzed(url, scan) ==
    CASE variant = "ultimate" -> scan = "ok"
      [] variant = "simple" -> url # "absent"
      [] OTHER -> FALSE

\* the route answers
Respond(c, status, success, plan, analyzed) ==
    /\ http' = [http EXCEPT ![c] =
          [status |-> status, success |-> success, plan |-> plan,
           repository_analyzed |-> analyzed]]
    /\ pc' = [pc EXCEPT ![c] = "done"]

\* POST /api/generate-implementation-plan up to its first generate call:
\* issue key, get_issue, repository scan, then the plan operation. In
\* ultimate_main.py a ticket with a long enough discussion gets it summarised
\* by generate first (the attachment analysis before it goes to the vision
\* client, not to generate); simple_main.py asks Granite only after a
\* successful scan and answers with its basic plan otherwise.
CallPlan(c) ==
    /\ variant \in {"simple", "final", "ultimate"}
    /\ MayStart(c)
    /\ op' = [op EXCEPT ![c] = "plan"]
    /\ \E has_key \in BOOLEAN, answer \in JiraAnswers, url \in UrlKinds,
          scanned \in ScanKinds, desc \in DescLens, has_discussion \in BOOLEAN :
         LET issue == GetIssue(answer)
             scan == IF url = "github" /\ variant # "final" THEN scanned ELSE "none"
             early == EarlyStatus(has_key, issue)
             \* get_issue is called for a request with a key; a request
             \* goes to Jira only from a client with credentials
             called == has_key /\ JiraServiceUp
             asked == called /\ jira_configured
             \* only the prompts of ultimate_main.py carry the description
             read == variant = "ultimate" /\ issue.kind = "issue"
         IN /\ req' = [req EXCEPT ![c] =
                  [has_key |-> has_key, url |-> url,
                   jira |-> IF asked THEN answer ELSE "-",
                   scan |-> scan, desc |-> IF read THEN desc ELSE 0]]
            /\ issue_ret' = [issue_ret EXCEPT ![c] = IF called THEN issue ELSE NoIssue]
            /\ IF early # 0
               THEN /\ Respond(c, early, FALSE, <<>>, FALSE)
                    /\ UNCHANGED <<tokvars, genvars, plan_calls, prompt_chars>>
               ELSE IF variant = "ultimate" /\ has_discussion /\ issue.kind = "issue"
               THEN /\ purpose' = [purpose EXCEPT ![c] = "discussion"]
                    /\ EnterGenerate(c, PlanPrompt, 600, 2)
                    /\ UNCHANGED <<plan_calls, prompt_chars, http>>
               ELSE IF variant = "ultimate"
               THEN /\ purpose' = [purpose EXCEPT ![c] = "full"]
                    /\ plan_calls' = [plan_calls EXCEPT ![c] = 1]
                    /\ prompt_chars' = [prompt_chars EXCEPT ![c].first =
                          Truncated(FullPromptChars(IssueTitle(issue),
                                                    IssueDesc(issue, desc), scan, 0))]
                    /\ EnterGenerate(c, PlanPrompt, 1200, 1)
                    /\ UNCHANGED http
               ELSE IF variant = "final"
               THEN /\ purpose' = [purpose EXCEPT ![c] = "analysis"]
                    /\ plan_calls' = [plan_calls EXCEPT ![c] = 1]
                    /\ prompt_chars' = [prompt_chars EXCEPT ![c].first = FINAL_PROMPT_CHARS]
                    /\ EnterGenerate(c, PlanPrompt, 2000, 3)
                    /\ UNCHANGED http
               ELSE IF scan = "ok" /\ GraniteServiceUp
               THEN /\ purpose' = [purpose EXCEPT ![c] = "crystal"]
                    /\ plan_calls' = [plan_calls EXCEPT ![c] = 1]
                    /\ EnterGenerate(c, PlanPrompt, 2000, 2)
                    /\ UNCHANGED <<prompt_chars, http>>
               ELSE /\ Respond(c, 200, TRUE, BasicPlan, RepositoryAnalyzed(url, scan))
                    /\ UNCHANGED <<tokvars, genvars, plan_calls, prompt_chars>>
    /\ UNCHANGED <<config, apivars, gitvars, now, cache, first_why, plan_ret, health>>

\* the dict the plan operation returns for the last text it got.
\* ultimate_main.py: `if response and response.strip()`; final_main.py:
\* `if response:`; both hand out response.strip()
PlanResult(text) ==
    IF (variant = "final" /\ text # <<>>) \/ (variant # "final" /\ ~IsBlank(text))
    THEN [success |-> TRUE, plan |-> Strip(text), set |-> TRUE]
    ELSE [success |-> FALSE, plan |-> <<>>, set |-> TRUE]

\* the plan operation continues after a generate call returned, down to the
\* response of the route
AfterGenerate(c) ==
    /\ pc[c] = "gen_ret" /\ op[c] = "plan"
    /\ LET blank == gen_ret[c].kind = "text" /\ IsBlank(gen_ret[c].val)
           nxt == IF gen_ret[c].kind = "raised" /\ purpose[c] # "discussion"
                  THEN "end"
                  ELSE NextPurpose(purpose[c], blank)
           title == IssueTitle(issue_ret[c])
           desc == IssueDesc(issue_ret[c], req[c].desc)
           \* the enhanced summary when generate gave one, the summary of
           \* the comments (more than 100 characters) otherwise; only a
           \* summary of more than 100 characters becomes team notes
           team == IF gen_ret[c].kind = "text" /\ gen_ret[c].val # <<>>
                   THEN (IF Len(gen_ret[c].val) > 100 THEN TEAM_NOTES_CHARS ELSE 0)
                   ELSE TEAM_NOTES_CHARS
           result == IF gen_ret[c].kind = "text"
                     THEN PlanResult(gen_ret[c].val)
                     ELSE [success |-> FALSE, plan |-> <<>>, set |-> TRUE]
       IN /\ first_why' = [first_why EXCEPT ![c] =
                 IF purpose[c] = "full" THEN gen_ret[c].why ELSE @]
          /\ IF nxt = "full"
             THEN /\ purpose' = [purpose EXCEPT ![c] = "full"]
                  /\ plan_calls' = [plan_calls EXCEPT ![c] = @ + 1]
                  /\ prompt_chars' = [prompt_chars EXCEPT ![c].first =
                        Truncated(FullPromptChars(title, desc, req[c].scan, team))]
                  /\ EnterGenerate(c, PlanPrompt, 1200, 1)
                  /\ UNCHANGED <<plan_ret, http>>
             ELSE IF nxt = "simple"
             THEN /\ purpose' = [purpose EXCEPT ![c] = "simple"]
                  /\ plan_calls' = [plan_calls EXCEPT ![c] = @ + 1]
                  /\ prompt_chars' = [prompt_chars EXCEPT ![c].retry =
                        SimplifiedPromptChars(title, desc, req[c].scan)]
                  /\ EnterGenerate(c, PlanPrompt, 800, 2)
                  /\ UNCHANGED <<plan_ret, http>>
             ELSE IF variant = "simple"
             THEN \* a Granite plan or, after an exception, the fallback plan
                  /\ plan_ret' = [plan_ret EXCEPT ![c] =
                        [success |-> TRUE, plan |-> BasicPlan, set |-> TRUE]]
                  /\ Respond(c, 200, TRUE, BasicPlan,
                             RepositoryAnalyzed(req[c].url, req[c].scan))
                  /\ UNCHANGED <<tokvars, genvars, plan_calls, prompt_chars>>
             ELSE /\ plan_ret' = [plan_ret EXCEPT ![c] = result]
                  /\ IF result.success
                     THEN Respond(c, 200, TRUE, result.plan,
                                  RepositoryAnalyzed(req[c].url, req[c].scan))
                     ELSE Respond(c, 500, FALSE, <<>>, FALSE)
                  /\ UNCHANGED <<tokvars, genvars, plan_calls, prompt_chars>>
    /\ UNCHANGED <<config, apivars, gitvars, now, cache, op, req, issue_ret, health>>

(* ---------------- the health route ---------------- *)
\* check_connection's test prompt ("Hello", "Hello, this is a connection
\* test.") and its max_tokens
HealthPrompt == <<"a">>
HealthMaxTokens == IF variant = "final" THEN 10 ELSE 20

\* mutant: check_connection lets an exception of generate through
GraniteStatus_NoCatch(ret) ==
    CASE ret.kind = "raised" -> "escaped"
      [] variant = "final" /\ ret.val # <<>> -> "success"
      [] variant # "final" /\ ~IsBlank(ret.val) -> "success"
      [] OTHER -> "error"

\* the "status" of the dict check_connection returns for the outcome of its
\* generate call: `if test_response` in final_main.py, `if test_response and
\* test_response.strip()` in ultimate_main.py, "error" from `except Exception`
GraniteStatus(ret) ==
    CASE ret.kind = "raised" -> "error"
      [] variant = "final" /\ ret.val # <<>> -> "success"
      [] variant # "final" /\ ~IsBlank(ret.val) -> "success"
      [] OTHER -> "error"

\* the health routes of final_main.py and ultimate_main.py answer 200 with
\* the report, and 500 from `except Exception` when building it raised
HealthReport(c, granite) ==
    /\ health' = [health EXCEPT ![c] =
          IF granite = "escaped"
          THEN [status |-> 500, granite |-> "-", jira |-> "-", github |-> "-"]
          ELSE [status |-> 200, granite |-> granite,
                jira |-> IF jira_configured THEN "success" ELSE "warning",
                github |-> IF variant = "ultimate" THEN "success" ELSE "configuration"]]
    /\ pc' = [pc EXCEPT ![c] = "done"]

\* GET /api/health up to its first suspension. main.py reads its service
\* globals (`jira_service.jira` is no attribute of JiraService: the
\* AttributeError is caught and reported as "error"); simple_main.py probes
\* Jira's /myself; final_main.py and ultimate_main.py run check_connection,
\* which asks for a token after looking at the configuration.
CallHealth(c) ==
    /\ MayStart(c)
    /\ op' = [op EXCEPT ![c] = "health"]
    /\ IF variant = "service"
       THEN /\ health' = [health EXCEPT ![c] =
                  [status |-> 200,
                   granite |-> IF GraniteServiceUp THEN "ready" ELSE "not_initialized",
                   jira |-> IF jira_configured THEN "error" ELSE "not_initialized",
                   github |-> IF jira_configured THEN "ready" ELSE "not_initialized"]]
            /\ pc' = [pc EXCEPT ![c] = "done"]
            /\ UNCHANGED <<tokvars, genvars>>
       ELSE IF variant = "simple"
       THEN /\ \E myself \in {"connected", "error"} :
                 health' = [health EXCEPT ![c] =
                    [status |-> 200,
                     granite |-> IF GraniteServiceUp THEN "connected" ELSE "not_initialized",
                     jira |-> IF jira_configured THEN myself ELSE "not_initialized",
                     github |-> "ready"]]
            /\ pc' = [pc EXCEPT ![c] = "done"]
            /\ UNCHANGED <<tokvars, genvars>>
       ELSE IF ~api_key_set \/ ~project_id_set
       THEN /\ HealthReport(c, "error")
            /\ UNCHANGED <<tokvars, genvars>>
       ELSE /\ purpose' = [purpose EXCEPT ![c] = "probe_token"]
            /\ EnterGetBearerToken(c)
            /\ UNCHANGED <<gen_args, payload, gen_ret, health>>
    /\ UNCHANGED <<config, apivars, gitvars, now, cache, plan_calls, first_why, plan_ret, req,
                   issue_ret, prompt_chars, http>>

\* check_connection continues after get_bearer_token returned: without a
\* token it reports an error, with one it calls generate
HealthAfterToken(c) ==
    /\ pc[c] = "tok_ret" /\ op[c] = "health" /\ purpose[c] = "probe_token"
    /\ IF tok_ret[c].kind = "token"
       THEN /\ purpose' = [purpose EXCEPT ![c] = "probe"]
            /\ EnterGenerate(c, HealthPrompt, HealthMaxTokens, 0)
            /\ UNCHANGED health
       ELSE /\ HealthReport(c, "error")
            /\ tok_ret' = [tok_ret EXCEPT ![c] = NoRet]
            /\ UNCHANGED <<iam_requests, sent_at, genvars>>
    /\ UNCHANGED <<config, apivars, gitvars, now, cache, op, plan_calls, first_why, plan_ret, req,
                   issue_ret, prompt_chars, http>>

\* check_connection returns and the route answers
HealthDone(c) ==
    /\ pc[c] = "gen_ret" /\ op[c] = "health"
    /\ HealthReport(c, GraniteStatus(gen_ret[c]))
    /\ UNCHANGED <<config, apivars, gitvars, now, cache, tokvars, op, genvars, plan_calls, first_why,
                   plan_ret, req, issue_ret, prompt_chars, http>>

(* ---------------- the GitHub URL parsers ---------------- *)
\* the helpers below are plain synchronous functions: one runs at a time
HelpersIdle == parsed = NoParsed /\ adf = NoAdf /\ jql = NoJql

IsPrefix(p, s) == Len(p) <= Len(s) /\ SubSeq(s, 1, Len(p)) = p
Drop(s, n) == SubSeq(s, n + 1, Len(s))

\* the longest prefix of s without a "/": what [^/]+ takes when a "/" or
\* the end has to follow
RECURSIVE NoSlashRun(_)
NoSlashRun(s) ==
    IF s = <<>> \/ Head(s) = "/" THEN <<>> ELSE <<Head(s)>> \o NoSlashRun(Tail(s))

\* ([^/]+?)(?:\.git)? on a run without "/": the lazy group leaves a final
\* ".git" to the optional group when something is left for itself
RepoName(run) ==
    IF Len(run) >= 2 /\ run[Len(run)] = ".git"
    THEN SubSeq(run, 1, Len(run) - 1)
    ELSE run

\* re.match of prefix ([^/]+)/([^/]+?)(?:\.git)? and then, for the https
\* pattern, (?:/.*)?$, for the ssh pattern, $
MatchPattern(s, prefix, may_go_on) ==
    IF ~IsPrefix(prefix, s) THEN NoMatch("raised")
    ELSE LET rest == Drop(s, Len(prefix))
             owner == NoSlashRun(rest)
             after == Drop(rest, Len(owner))
             run == IF after = <<>> THEN <<>> ELSE NoSlashRun(Tail(after))
             tail == IF after = <<>> THEN <<>> ELSE Drop(Tail(after), Len(run))
         IN  IF owner # <<>> /\ after # <<>> /\ run # <<>> /\ (may_go_on \/ tail = <<>>)
             THEN [kind |-> "dict", owner |-> owner, repo |-> RepoName(run)]
             ELSE NoMatch("raised")

\* simple_main.py: the two patterns tried in turn on url.strip(), ValueError
\* when neither matches
RegexParse(url) ==
    LET https == MatchPattern(Strip(url), HTTPS_PREFIX, TRUE)
    IN  IF https.kind = "dict" THEN https
        ELSE MatchPattern(Strip(url), SSH_PREFIX, FALSE)

\* str.replace(old, ""): every occurrence of old, from the left
RECURSIVE Remove(_, _)
Remove(s, old) ==
    IF s = <<>> THEN <<>>
    ELSE IF IsPrefix(old, s) THEN Remove(Drop(s, Len(old)), old)
    ELSE <<Head(s)>> \o Remove(Tail(s), old)

\* str.rstrip('/')
RECURSIVE RStripSlash(_)
RStripSlash(s) ==
    IF s # <<>> /\ s[Len(s)] = "/" THEN RStripSlash(SubSeq(s, 1, Len(s) - 1)) ELSE s

\* str.split('/'): the pieces between the slashes, empty ones included
RECURSIVE Split(_)
Split(s) ==
    LET first == NoSlashRun(s)
    IN  IF Len(first) = Len(s) THEN <<first>>
        ELSE <<first>> \o Split(Drop(s, Len(first) + 1))

\* ultimate_main.py (and ultimate_main_simple.py): both web prefixes
\* removed, trailing slashes stripped, split at "/"; the first two parts are
\* owner and repo, None with fewer than two parts
SplitParse(url) ==
    LET parts == Split(RStripSlash(Remove(Remove(url, HTTPS_PREFIX), HTTP_PREFIX)))
    IN  IF Len(parts) >= 2
        THEN [kind |-> "dict", owner |-> parts[1], repo |-> parts[2]]
        ELSE NoMatch("none")

ParseGithubUrl(url) == IF variant = "simple" THEN RegexParse(url) ELSE SplitParse(url)

\* a caller parses a URL
CallParseGithubUrl ==
    /\ variant \in {"simple", "ultimate"} /\ HelpersIdle
    /\ \E url \in Urls : parsed' = [url |-> url, ret |-> ParseGithubUrl(url)]
    /\ UNCHANGED <<config, gitvars, now, cache, tokvars, pc, op, genvars, planvars, backlog, validation, adf, jql>>

\* the caller has used the result
ParseDone ==
    /\ parsed # NoParsed
    /\ parsed' = NoParsed
    /\ UNCHANGED <<config, gitvars, now, cache, tokvars, pc, op, genvars, planvars, backlog, validation, adf, jql>>

(* ---------------- Atlassian Document Format ---------------- *)
\* the document Jira sends for a description of one paragraph
ParagraphDoc(texts) ==
    [type |-> "doc", version |-> 1,
     content |-> <<[type |-> "paragraph",
                    content |-> [i \in 1..Len(texts) |->
                                    [type |-> "text", text |-> texts[i]]]]>>]

\* the body add_comment builds around a text
CommentBody(comment) ==
    [type |-> "doc", version |-> 1,
     content |-> <<[type |-> "paragraph",
                    content |-> <<[type |-> "text", text |-> comment]>>]>>]

RECURSIVE Concat(_)
Concat(seqs) == IF seqs = <<>> THEN <<>> ELSE Head(seqs) \o Concat(Tail(seqs))

\* extract_text_recursive: text_parts in document order
RECURSIVE TextParts(_)
TextParts(node) ==
    IF node.type = "text"
    THEN <<IF "text" \in DOMAIN node THEN node.text ELSE <<>>>>
    ELSE IF "content" \in DOMAIN node
    THEN Concat([i \in 1..Len(node.content) |-> TextParts(node.content[i])])
    ELSE IF "text" \in DOMAIN node THEN <<node.text>>
    ELSE <<>>

\* " ".join(parts)
RECURSIVE JoinSpace(_)
JoinSpace(parts) ==
    IF parts = <<>> THEN <<>>
    ELSE IF Len(parts) = 1 THEN Head(parts)
    ELSE Head(parts) \o <<SP>> \o JoinSpace(Tail(parts))

\* _extract_text_from_adf on a dict: " ".join(text_parts).strip()
ExtractTextFromAdf(doc) == Strip(JoinSpace(TextParts(doc)))

\* a description is flattened, the text wrapped as add_comment wraps it,
\* and the wrapping flattened again
CallExtractTextFromAdf ==
    /\ ServiceClient /\ HelpersIdle
    /\ \E texts \in Paragraphs :
         LET flat == ExtractTextFromAdf(ParagraphDoc(texts))
         IN  adf' = [nodes |-> texts, flat |-> flat,
                     again |-> ExtractTextFromAdf(CommentBody(flat))]
    /\ UNCHANGED <<config, gitvars, now, cache, tokvars, pc, op, genvars, planvars,
                   backlog, validation, parsed, jql>>

\* the caller has used the text
ExtractDone ==
    /\ adf # NoAdf
    /\ adf' = NoAdf
    /\ UNCHANGED <<config, gitvars, now, cache, tokvars, pc, op, genvars, planvars,
                   backlog, validation, parsed, jql>>

(* ---------------- the issue search ---------------- *)
\* the field of the ORDER BY clause: created in jira_service.py, updated in
\* final_main.py and ultimate_main.py
OrderField == IF ServiceClient THEN "created" ELSE "updated"

\* get_issues: f"project = {project_key}", then f" AND status = '{status}'"
\* under `if status:`, then " ORDER BY ... DESC"
BuildJql(key, status) ==
    <<"project = ", key>>
    \o (IF status.given /\ status.val # ""
        THEN <<" AND status = '", status.val, "'">>
        ELSE <<>>)
    \o <<" ORDER BY ", OrderField, " DESC">>

\* get_issues up to the search request
CallGetIssues ==
    /\ HelpersIdle
    /\ \E key \in ProjectKeys, status \in StatusFilters :
         jql' = [key |-> key, status |-> status, text |-> BuildJql(key, status)]
    /\ UNCHANGED <<config, gitvars, now, cache, tokvars, pc, op, genvars, planvars,
                   backlog, validation, parsed, adf>>

\* the search has been sent
GetIssuesDone ==
    /\ jql # NoJql
    /\ jql' = NoJql
    /\ UNCHANGED <<config, gitvars, now, cache, tokvars, pc, op, genvars, planvars,
                   backlog, validation, parsed, adf>>

(* ---------------- the agile-backlog route of main.py ---------------- *)
\* JiraService.get_agile_backlog_branches: without a board id it takes the
\* first board of get_agile_boards (which raises for any failure; an empty
\* list raises here), then GETs the board's backlog; every exception ends in
\* the dict {"success": False, ...}, a 200 answer in {"success": True, ...}
BacklogSucceeded(board_given, boards, answer) ==
    /\ board_given \/ boards = "boards"
    /\ answer = "200"

\* GET /agile/1.0/backlog/issue: 503 without a Jira service, otherwise the
\* dict of the service is returned as the body of a 200 answer, whatever
\* its "success" says; the service never raises, so the route's 500 is
\* never taken
CallAgileBacklog(c) ==
    /\ MayStart(c) /\ variant = "service"
    /\ op' = [op EXCEPT ![c] = "backlog"]
    /\ pc' = [pc EXCEPT ![c] = "done"]
    /\ \E board_given \in BOOLEAN, boards \in BoardAnswers, answer \in BacklogAnswers :
         backlog' = [backlog EXCEPT ![c] =
            IF ~JiraServiceUp
            THEN [status |-> 503, success |-> "-"]
            ELSE [status |-> 200,
                  success |-> IF BacklogSucceeded(board_given, boards, answer)
                              THEN "true" ELSE "false"]]
    /\ UNCHANGED <<config, gitvars, now, cache, tokvars, genvars, planvars, validation,
                   parsed, adf, jql>>

(* ---------------- the PR-validation route of ultimate_main.py ---------------- *)
Min(a, b) == IF a < b THEN a ELSE b
Max(a, b) == IF a > b THEN a ELSE b

\* create_fallback_analysis: a verdict from the size of the change alone
CreateFallbackAnalysis(pr) ==
    LET completeness_score ==
            IF pr.changed_files > 0
            THEN Min(80, Max(30, pr.changed_files * 10 + pr.additions \div 10))
            ELSE 20
        validation_status ==
            IF completeness_score >= 70 THEN "valid"
            ELSE IF completeness_score < 40 THEN "invalid"
            ELSE "needs_improvement"
        merge_recommendation ==
            IF completeness_score >= 80 /\ pr.mergeable THEN "ready_to_merge"
            ELSE IF completeness_score < 40 THEN "major_changes_required"
            ELSE "needs_improvements"
        can_merge == validation_status = "valid" /\ pr.mergeable /\ completeness_score >= 70
    IN [validation_status |-> validation_status,
        completeness_score |-> completeness_score,
        merge_recommendation |-> merge_recommendation,
        can_merge |-> can_merge,
        missing_requirements |->
            <<"Unable to analyze requirements - IBM Granite AI unavailable">>,
        suggestions |-> <<"Review PR manually against ticket requirements",
                          "Ensure all acceptance criteria are met",
                          "Run tests to verify functionality">>,
        code_quality_issues |-> <<>>,
        merge_blockers |-> IF can_merge THEN <<>> ELSE <<"Manual review required">>,
        feedback |-> <<"Automated analysis completed with basic heuristics">>,
        analysis_timestamp |-> now,
        pr_summary |-> [addresses_ticket |-> completeness_score >= 70,
                        code_quality |-> "unknown",
                        ready_for_merge |-> can_merge,
                        risk_level |-> "medium"]]

\* parse_granite_analysis: the verdict the marker lines of the answer give,
\* with the defaults for the lines the answer leaves out
ParseGraniteAnalysis(text, said) ==
    LET validation_status ==
            CASE said.status = "approved" -> "valid"
              [] said.status = "rejected" -> "invalid"
              [] OTHER -> "needs_improvement"
        completeness_score ==
            IF said.score < 0 THEN 50 ELSE Max(0, Min(100, said.score))
        merge_recommendation ==
            CASE said.rec = "ready" -> "ready_to_merge"
              [] said.rec = "major" -> "major_changes_required"
              [] OTHER -> "needs_improvements"
        merge_blockers == [i \in 1..said.blockers |-> "blocker"]
        can_merge == /\ validation_status = "valid"
                     /\ completeness_score >= 70
                     /\ merge_recommendation = "ready_to_merge"
                     /\ Len(merge_blockers) = 0
    IN [validation_status |-> validation_status,
        completeness_score |-> completeness_score,
        merge_recommendation |-> merge_recommendation,
        can_merge |-> can_merge,
        missing_requirements |-> <<>>,
        suggestions |-> <<>>,
        code_quality_issues |-> <<>>,
        merge_blockers |-> merge_blockers,
        feedback |-> Strip(text),
        analysis_timestamp |-> now,
        pr_summary |-> [addresses_ticket |-> completeness_score >= 70,
                        code_quality |-> "good",
                        ready_for_merge |-> can_merge,
                        risk_level |-> IF can_merge THEN "low"
                                       ELSE IF completeness_score >= 50 THEN "medium"
                                       ELSE "high"]]

\* analyze_pr_against_ticket once generate returned: a blank answer (every
\* failure of generate is "" here) goes to the fallback, any other answer
\* to the parser
AnalyzePrAgainstTicket(pr, ret, said) ==
    IF ret.kind = "raised" \/ IsBlank(ret.val)
    THEN CreateFallbackAnalysis(pr)
    ELSE ParseGraniteAnalysis(ret.val, said)

\* POST /api/validate-pr up to the generate call: 400 without issue key or
\* PR URL, 404 without the issue, 500 when the pull request cannot be
\* fetched (analyze_pull_request gives success false)
CallValidatePr(c) ==
    /\ MayStart(c) /\ variant = "ultimate"
    /\ op' = [op EXCEPT ![c] = "pr"]
    /\ \E has_fields \in BOOLEAN, answer \in JiraAnswers, fetched \in PrFetches,
          pr \in PrShapes :
         LET issue == GetIssue(answer)
             early == IF ~has_fields THEN 400
                      ELSE IF issue.kind = "none" THEN 404
                      ELSE IF fetched # "ok" THEN 500
                      ELSE 0
         IN IF early # 0
            THEN /\ validation' = [validation EXCEPT ![c] =
                       [NoValidation EXCEPT !.status = early]]
                 /\ pc' = [pc EXCEPT ![c] = "done"]
                 /\ UNCHANGED <<tokvars, genvars>>
            ELSE /\ validation' = [validation EXCEPT ![c] =
                       [NoValidation EXCEPT !.pr = pr]]
                 /\ purpose' = [purpose EXCEPT ![c] = "pr"]
                 /\ EnterGenerate(c, PrPrompt, PrMaxTokens, PrTemperature)
    /\ UNCHANGED <<config, gitvars, now, cache, planvars, backlog, parsed, adf, jql>>

\* the route once generate returned: analyze_pull_request wraps the analysis
\* of either path in the same success answer, which the route returns as it is
AfterValidatePr(c) ==
    /\ pc[c] = "gen_ret" /\ op[c] = "pr"
    /\ \E said \in Verdicts :
         validation' = [validation EXCEPT ![c] =
            [status |-> 200, success |-> TRUE, pr |-> @.pr,
             analysis |-> AnalyzePrAgainstTicket(@.pr, gen_ret[c], said)]]
    /\ pc' = [pc EXCEPT ![c] = "done"]
    /\ UNCHANGED <<config, gitvars, now, cache, tokvars, op, genvars, planvars,
                   backlog, parsed, adf, jql>>

\* the request is answered; the caller is free for the next one
Finish(c) ==
    /\ \/ pc[c] = "tok_ret" /\ op[c] = "token"
       \/ pc[c] = "done"
    /\ pc' = [pc EXCEPT ![c] = "idle"]
    /\ op' = [op EXCEPT ![c] = "none"]
    /\ tok_ret' = [tok_ret EXCEPT ![c] = NoRet]
    /\ purpose' = [purpose EXCEPT ![c] = "-"]
    /\ gen_args' = [gen_args EXCEPT ![c] = NoArgs]
    /\ payload' = [payload EXCEPT ![c] = NoPayload]
    /\ gen_ret' = [gen_ret EXCEPT ![c] = NoGenRet]
    /\ plan_calls' = [plan_calls EXCEPT ![c] = 0]
    /\ first_why' = [first_why EXCEPT ![c] = "-"]
    /\ plan_ret' = [plan_ret EXCEPT ![c] = NoPlanRet]
    /\ req' = [req EXCEPT ![c] = NoReq]
    /\ issue_ret' = [issue_ret EXCEPT ![c] = NoIssue]
    /\ prompt_chars' = [prompt_chars EXCEPT ![c] = NoChars]
    /\ http' = [http EXCEPT ![c] = NoHttp]
    /\ health' = [health EXCEPT ![c] = NoHealth]
    /\ backlog' = [backlog EXCEPT ![c] = NoBacklog]
    /\ validation' = [validation EXCEPT ![c] = NoValidation]
    /\ UNCHANGED <<config, gitvars, parsed, adf, jql, now, cache, iam_requests, sent_at>>

\* the clock advances
Tick ==
    /\ \E d \in TimeSteps : now + d <= MaxTime /\ now' = now + d
    /\ UNCHANGED <<config, apivars, gitvars, cache, tokvars, pc, op, genvars, planvars>>

(* ---------------- the repository analyzer ---------------- *)

\* what a request carries through its calls of _api_request
ApiState(r) ==
    [out |-> "-", cache |-> repo_cache, delay |-> rate_limit_delay,
     limited |-> analysis[r].limited, after_limit |-> analysis[r].after_limit,
     cached |-> FALSE]

\* mutant: an entry of exactly 300 s is still served
ApiRequest_Inclusive(st, url, answer) ==
    IF st.cache[url] # NoEntry /\ now - st.cache[url] <= CACHE_SECONDS
    THEN [st EXCEPT !.out = "data", !.cached = TRUE]
    ELSE IF ~session.open
    THEN [st EXCEPT !.out = "closed"]
    ELSE LET sent == [st EXCEPT !.after_limit = @ \/ st.limited] IN
         CASE answer = "200" -> [sent EXCEPT !.out = "data", !.cache[url] = now]
           [] answer = "403" -> [sent EXCEPT !.out = "429", !.limited = TRUE,
                                    !.delay = Min(2 * @, MAX_RATE_LIMIT_DELAY)]
           [] answer = "500" -> [sent EXCEPT !.out = "500"]
           [] OTHER -> [sent EXCEPT !.out = "none"]

\* _api_request(url) with GitHub answering `answer`. A fresh cache entry is
\* returned without a GET; a GET on a closed aiohttp session raises
\* RuntimeError; 403 doubles the delay (capped at 5 s) and raises
\* HTTPException(429); 404 and aiohttp.ClientError give None; any other
\* status but 200 raises HTTPException(status); a 200 body is cached
ApiRequest(st, url, answer) ==
    IF st.cache[url] # NoEntry /\ now - st.cache[url] < CACHE_SECONDS
    THEN [st EXCEPT !.out = "data", !.cached = TRUE]
    ELSE IF ~session.open
    THEN [st EXCEPT !.out = "closed"]
    ELSE LET sent == [st EXCEPT !.after_limit = @ \/ st.limited] IN
         CASE answer = "200" -> [sent EXCEPT !.out = "data", !.cache[url] = now]
           [] answer = "403" -> [sent EXCEPT !.out = "429", !.limited = TRUE,
                                    !.delay = Min(2 * @, MAX_RATE_LIMIT_DELAY)]
           [] answer = "500" -> [sent EXCEPT !.out = "500"]
           [] OTHER -> [sent EXCEPT !.out = "none"]

Raised(st) == st.out \in {"429", "500", "closed"}

\* the analyzer's state after a request's calls of _api_request
Store(r, st, pos, file, status) ==
    /\ repo_cache' = st.cache
    /\ rate_limit_delay' = st.delay
    /\ analysis' = [analysis EXCEPT ![r] = [pc |-> pos, file |-> file, limited |-> st.limited,
                                    after_limit |-> st.after_limit, status |-> status,
                                    cached |-> st.cached]]

\* __aexit__: `if self.session: await self.session.close()`
CloseSession == session' = [session EXCEPT !.open = FALSE]

\* POST /api/analyze-repository up to its first GET: 400 without github_url;
\* `async with repo_analyzer` replaces self.session by a new ClientSession;
\* a URL _parse_github_url rejects raises ValueError inside
\* analyze_repository, which turns every exception into HTTPException(500)
CallAnalyzeRepository(r) ==
    /\ analysis[r].pc = "idle"
    /\ \E has_url \in BOOLEAN, parses \in BOOLEAN :
         IF ~has_url
         THEN /\ analysis' = [analysis EXCEPT ![r] = [NoScan EXCEPT !.pc = "done", !.status = 400]]
              /\ UNCHANGED session
         ELSE IF ~parses
         THEN /\ analysis' = [analysis EXCEPT ![r] = [NoScan EXCEPT !.pc = "done", !.status = 500]]
              /\ session' = [owner |-> r, open |-> FALSE]
         ELSE /\ analysis' = [analysis EXCEPT ![r] = [NoScan EXCEPT !.pc = "info"]]
              /\ session' = [owner |-> r, open |-> TRUE]
    /\ UNCHANGED <<repo_cache, rate_limit_delay>>
    /\ UNCHANGED <<config, apivars, now, cache, tokvars, pc, op, genvars, planvars>>

\* repo_info = await self._api_request(api_base); None raises
\* HTTPException(404), and `except Exception` makes HTTPException(500) of
\* whatever was raised
ScanRepoInfo(r) ==
    /\ analysis[r].pc = "info"
    /\ \E answer \in GitAnswers :
         LET st == ApiRequest(ApiState(r), <<"repo", 0>>, answer) IN
         IF st.out = "data"
         THEN Store(r, st, "gather", 0, 0) /\ UNCHANGED session
         ELSE Store(r, st, "done", 0, 500) /\ CloseSession
    /\ UNCHANGED <<config, apivars, now, cache, tokvars, pc, op, genvars, planvars>>

\* asyncio.gather(_analyze_languages, _analyze_directory_structure): both
\* GETs leave before either answer is read. None gives {} for either. Without
\* a directory listing there are no configuration files to fetch and the
\* scan completes
ScanGather(r) ==
    /\ analysis[r].pc = "gather"
    /\ \E a1 \in GitAnswers, a2 \in GitAnswers :
         LET st0 == ApiState(r)
             st1 == ApiRequest(st0, <<"languages", 0>>, a1)
             st2 == ApiRequest([st1 EXCEPT !.limited = st0.limited], <<"contents", 0>>, a2)
             st == [st2 EXCEPT !.limited = st1.limited \/ st2.limited]
         IN  IF Raised(st1) \/ Raised(st2)
             THEN Store(r, st, "done", 0, 500) /\ CloseSession
             ELSE IF st2.out = "data"
             THEN Store(r, st, "file", 1, 0) /\ UNCHANGED session
             ELSE Store(r, st, "done", 0, 200) /\ CloseSession
    /\ UNCHANGED <<config, apivars, now, cache, tokvars, pc, op, genvars, planvars>>

\* _analyze_package_files: one _get_file_content per configuration file.
\* _get_file_content returns "" for None and for every exception, so the
\* loop goes on to the next file; after the last one the analysis is
\* returned and the route answers 200
ScanFile(r) ==
    /\ analysis[r].pc = "file"
    /\ \E answer \in GitAnswers :
         LET st == ApiRequest(ApiState(r), <<"file", analysis[r].file>>, answer) IN
         IF analysis[r].file < NConfigFiles
         THEN Store(r, st, "file", analysis[r].file + 1, 0) /\ UNCHANGED session
         ELSE Store(r, st, "done", 0, 200) /\ CloseSession
    /\ UNCHANGED <<config, apivars, now, cache, tokvars, pc, op, genvars, planvars>>

\* the route has answered
ScanFinish(r) ==
    /\ analysis[r].pc = "done"
    /\ analysis' = [analysis EXCEPT ![r] = NoScan]
    /\ UNCHANGED <<session, repo_cache, rate_limit_delay>>
    /\ UNCHANGED <<config, apivars, now, cache, tokvars, pc, op, genvars, planvars>>

\* the clock advances between the steps of the scans
GitTick ==
    /\ \E d \in GitTimeSteps : now + d <= GitMaxTime /\ now' = now + d
    /\ UNCHANGED <<config, apivars, gitvars, cache, tokvars, pc, op, genvars, planvars>>

\* the token cache under concurrent requests
Next ==
    \/ Tick
    \/ \E c \in Callers :
         \/ CallGetBearerToken(c)
         \/ ReceiveIamResponse(c)
         \/ Finish(c)

Spec == Init /\ [][Next]_vars

\* one request at a time through the generation client and the plan assembler
GenCallers == {1}

GenNext ==
    \/ Tick
    \/ \E c \in GenCallers :
         \/ CallGenerate(c)
         \/ CallPlan(c)
         \/ ReceiveIamResponse(c)
         \/ AfterGetBearerToken(c)
         \/ ReceiveGenResponse(c)
         \/ GenerateCallDone(c)
         \/ AfterGenerate(c)
         \/ CallHealth(c)
         \/ HealthAfterToken(c)
         \/ HealthDone(c)
         \/ CallAgileBacklog(c)
         \/ CallValidatePr(c)
         \/ AfterValidatePr(c)
         \/ Finish(c)

GenSpec == Init /\ [][GenNext]_vars

\* simple_main.py with its services up, serving repository analyses
GitInit == Init /\ variant = "simple" /\ api_key_set /\ jira_configured

GitNext ==
    \/ GitTick
    \/ \E r \in Requests :
         \/ CallAnalyzeRepository(r)
         \/ ScanRepoInfo(r)
         \/ ScanGather(r)
         \/ ScanFile(r)
         \/ ScanFinish(r)

GitSpec == GitInit /\ [][GitNext]_vars

\* the pure helpers, applied to inputs of bounded size
PureInit == Init /\ api_key_set /\ project_id_set /\ jira_configured

PureNext ==
    \/ CallParseGithubUrl
    \/ ParseDone
    \/ CallExtractTextFromAdf
    \/ ExtractDone
    \/ CallGetIssues
    \/ GetIssuesDone

PureSpec == PureInit /\ [][PureNext]_vars

(* ======================= properties ======================= *)

\* get_bearer_token hands a value to caller c in this step
TokenReturned(c) == pc[c] # "tok_ret" /\ pc'[c] = "tok_ret" /\ tok_ret'[c].kind = "token"

\* under Spec a caller leaves "idle" only by calling get_bearer_token
GetTokenCalled(c) == pc[c] = "idle" /\ pc'[c] # "idle"

\* C1: every token handed to a caller at time t comes from an IAM answer
\* whose real expiry (time of issue + lifetime) is more than 300 s after t,
\* for the refreshing call as well as for cache hits.
C1_NeverWithinMargin ==
    [][\A c \in Callers :
         TokenReturned(c) => now' + 300 < RealExpiry(tok_ret'[c].val)]_vars

\* C2: with expires_at = time obtained + expires_in - 300, a get_token call
\* is served from the cache without an IAM request exactly when
\* now < expires_at (so at +3299 for expires_in = 3600), and sends a
\* refresh request from expires_at on (at +3300).
C2_RefreshExactlyAtMargin ==
    /\ [](bearer_token # NoToken =>
            token_expires_at = cache_obtained_at + cache_expires_in - 300)
    /\ [][\A c \in Callers :
            (GetTokenCalled(c) /\ bearer_token # NoToken) =>
               IF now < cache_obtained_at + cache_expires_in - 300
               THEN /\ tok_ret'[c] = [kind |-> "token", val |-> bearer_token, src |-> "cache"]
                    /\ iam_requests' = iam_requests
               ELSE /\ pc'[c] = "tok_wait"
                    /\ iam_requests' = iam_requests + 1]_vars

\* C2 witness: a token obtained with expires_in = 3600 is served from the
\* cache 3299 s later
C2_Witness ==
    \E c \in Callers :
        /\ tok_ret[c].src = "cache"
        /\ cache_expires_in = 3600
        /\ now = cache_obtained_at + 3299

\* C3: calls made while the cached token is valid send nothing to IAM and
\* all return the cached token: the one request that fetched the token is
\* the only one of the window.
C3_OneRequestPerWindow ==
    [][\A c \in Callers :
         (GetTokenCalled(c) /\ bearer_token # NoToken /\ now < token_expires_at) =>
            /\ iam_requests' = iam_requests
            /\ pc'[c] = "tok_ret"
            /\ tok_ret'[c].kind = "token" /\ tok_ret'[c].val = bearer_token
            /\ bearer_token' = bearer_token
            /\ token_expires_at' = token_expires_at]_vars

\* C3 witness: one IAM request so far, and every caller holds the cached
\* token served without a request
C3_Witness ==
    /\ iam_requests = 1
    /\ \A c \in Callers : tok_ret[c].src = "cache" /\ tok_ret[c].val = bearer_token

\* C4: a failed token exchange (non-200 answer, network error, timeout)
\* leaves bearer_token and token_expires_at as they were before the call.
C4_FailureLeavesCache ==
    [][\A c \in Callers :
         (pc[c] = "tok_wait" /\ pc'[c] = "tok_ret" /\ tok_ret'[c].kind # "token") =>
            /\ bearer_token' = bearer_token
            /\ token_expires_at' = token_expires_at]_vars

\* C4 witness: an exchange failed while the cache held an (expired) token,
\* and the token is still there
C4_Witness ==
    \E c \in Callers :
        /\ tok_ret[c].src = "failed"
        /\ bearer_token # NoToken
        /\ now >= token_expires_at

\* C5: a failing IAM exchange reaches the caller of generate as an error,
\* never as an absent token or an empty generation result.
C5_TokenFailureIsAnError ==
    \A c \in Callers :
        /\ tok_ret[c].src = "failed" => tok_ret[c].kind = "raised"
        /\ gen_ret[c].why = "token_failed" => gen_ret[c].kind = "raised"

\* C6: under concurrent get_token calls of the asyncio service every token
\* handed out is the one of a successful IAM answer, and now is before its
\* margin-adjusted expiry at the moment it is returned.
C6_ConcurrentReturnsFresh ==
    [][\A c \in Callers :
         (variant = "service" /\ TokenReturned(c)) =>
            /\ tok_ret'[c].val # NoToken
            /\ tok_ret'[c].val = bearer_token'
            /\ now' < token_expires_at']_vars

\* C7: the parameters of a generation payload carry a temperature key
\* exactly when temperature > 0 (decoding_method "sample"), with the input
\* value; for temperature <= 0 the method is "greedy" and the key is absent.
C7_TemperatureOnlyWhenSampling ==
    \A c \in Callers :
        payload[c] # NoPayload =>
            /\ ("temperature" \in DOMAIN payload[c]) <=> (gen_args[c].temperature > 0)
            /\ (payload[c].decoding_method = "sample") <=> (gen_args[c].temperature > 0)
            /\ payload[c].decoding_method \in {"sample", "greedy"}
            /\ ("temperature" \in DOMAIN payload[c]) =>
                  payload[c].temperature = gen_args[c].temperature

\* C7 witness: a greedy payload (temperature 0) is on the wire
C7_Witness ==
    \E c \in Callers :
        /\ pc[c] = "gen_wait"
        /\ gen_args[c].temperature = 0
        /\ payload[c].decoding_method = "greedy"

\* C8: a 200 answer without `results`, or with an empty list, makes generate
\* fail with an error; it is never handed back as a (necessarily empty)
\* text, so that "" stands for an empty generated_text only.
C8_MalformedIsAnError ==
    \A c \in Callers :
        gen_ret[c].why = "malformed" => gen_ret[c].kind = "raised"

\* how a generate call ends when it did not get a text from the model
GenerateFailures == {"token_failed", "non200", "malformed", "timeout", "neterr"}

\* C9: the simplified retry is issued only after the full-prompt generate
\* came back with an empty text; a generate that ended in a token failure,
\* a non-200 answer, a malformed answer, a connection error or a timeout is
\* not retried.
C9_RetryOnlyOnEmptyText ==
    \A c \in Callers : purpose[c] = "simple" => first_why[c] \notin GenerateFailures

\* C10: one plan request makes at most two plan-generation calls (full
\* prompt, then at most one simplified prompt); after the simplified call
\* the operation ends with a result and never goes back to another call.
C10_AtMostOneRetry ==
    /\ [](\A c \in Callers : plan_calls[c] <= 2)
    /\ [][\A c \in Callers :
            /\ purpose[c] = "simple" => purpose'[c] \in {"simple", "-"}
            /\ (purpose[c] = "simple" /\ pc[c] = "gen_ret" /\ pc'[c] # "gen_ret") =>
                  (pc'[c] = "done" /\ plan_ret'[c].set /\ plan_calls'[c] = 2)]_vars

\* C10 witness: the simplified retry was made, came back blank, and the
\* operation ended in failure after two calls
C10_Witness ==
    \E c \in Callers :
        /\ pc[c] = "done" /\ purpose[c] = "simple"
        /\ plan_calls[c] = 2
        /\ plan_ret[c].set /\ ~plan_ret[c].success

\* C11: a plan operation whose simplified retry also came back empty is
\* answered with an error, and no response that reports success carries an
\* empty or whitespace-only plan text.
C11_NoEmptyPlanAsSuccess ==
    \A c \in Callers :
       /\ (http[c].status \in 200..299 /\ http[c].success) => ~IsBlank(http[c].plan)
       /\ (http[c].status # 0 /\ purpose[c] = "simple" /\ IsBlank(gen_ret[c].val))
             => http[c].status >= 400

\* C12: whenever the simplified retry is taken, the prompt it sends is
\* strictly shorter than the prompt of the first generate call, whatever the
\* issue and the repository context.
C12_RetryPromptShorter ==
    \A c \in Callers :
       prompt_chars[c].retry # 0 => prompt_chars[c].retry < prompt_chars[c].first

\* C13: every prompt the plan operation of ultimate_main.py passes to
\* generate, first attempt and simplified retry, has at most 8000 characters.
C13_PromptWithinBudget ==
    \A c \in Callers :
       variant = "ultimate" =>
          /\ prompt_chars[c].first <= PROMPT_BUDGET
          /\ prompt_chars[c].retry <= PROMPT_BUDGET

\* the plan route answered 200 with success, and where the plan text is
\* Granite's, Granite had answered with a text that is not blank
GenerationSucceeded(c) ==
    /\ http[c].status = 200 /\ http[c].success
    /\ purpose[c] \in {"full", "simple", "analysis"} => ~IsBlank(gen_ret[c].val)

C15_MissingKeyIsBadInput ==
    \A c \in Callers :
       (http[c].status # 0 /\ ~req[c].has_key /\ JiraServiceUp) =>
          http[c].status \in 400..499

\* get_issue reported a missing issue: None, or an error that carries 404
NotFound(issue) ==
    issue.kind = "none" \/ (issue.kind = "raised" /\ issue.status = 404)

\* C16: get_issue reports "not found" exactly when Jira answered 404, and
\* an upstream error for any other failing answer, so that the route can
\* tell the two apart.
C16_NotFoundOnlyOn404 ==
    \A c \in Callers :
       /\ req[c].jira = "404" => NotFound(issue_ret[c])
       /\ req[c].jira = "500" => issue_ret[c].kind = "raised" /\ ~NotFound(issue_ret[c])

\* C17: get_issue called on a Jira client without credentials fails with an
\* error; it hands out neither an issue nor an empty result.
C17_UnconfiguredJiraFails ==
    \A c \in Callers :
       (~jira_configured /\ issue_ret[c].kind # "-") => issue_ret[c].kind = "raised"

C19_OnlyThatDependencyDisabled ==
    \A c \in Callers :
       (health[c].status # 0 /\ api_key_set /\ project_id_set) =>
          health[c].granite # "not_initialized"

\* C20: when GitHub answers 403 the client surfaces a rate-limited error
\* (429 at the API surface) and sends no further request for that call; the
\* condition does not become a generic failure or an empty result.
C20_RateLimitSurfaces ==
    \A r \in Requests :
       analysis[r].limited =>
          /\ ~analysis[r].after_limit
          /\ analysis[r].status # 0 => analysis[r].status = 429


\* C21: no route answers a failed operation with status 200 and a body
\* whose success field is false: an operation that failed internally is
\* answered with a status outside 2xx.
C21_FailureIsNot2xx ==
    \A c \in Callers :
       backlog[c].success = "false" => backlog[c].status \notin 200..299


\* C22: every outbound HTTP call carries a timeout, so no request waits
\* without bound on its upstream: a token that get_bearer_token takes from
\* an IAM answer was answered within the timeout of the POST.
C22_EveryCallHasTimeout ==
    [][\A c \in Callers :
         (pc[c] = "tok_wait" /\ pc'[c] = "tok_ret" /\ tok_ret'[c].src = "refresh") =>
            now - sent_at[c] <= IAM_TIMEOUT]_vars


\* the three URLs the claim names
AcmeWidgets ==
    {HTTPS_PREFIX \o <<"acme", "/", "widgets">>,
     HTTPS_PREFIX \o <<"acme", "/", "widgets", ".git">>,
     SSH_PREFIX \o <<"acme", "/", "widgets", ".git">>}

\* the URL has one of the accepted shapes: https://github.com/{owner}/{repo}
\* with an optional .git and an optional /..., or git@github.com:{owner}/{repo}
\* with an optional .git
Accepted(url) ==
    \E p \in {HTTPS_PREFIX, SSH_PREFIX} :
       /\ IsPrefix(p, url)
       /\ \E i \in (Len(p) + 2)..(Len(url) - 1) :
            /\ url[i] = "/" /\ url[i + 1] # "/"
            /\ \A k \in (Len(p) + 1)..(i - 1) : url[k] # "/"
            /\ p = SSH_PREFIX => \A k \in (i + 1)..Len(url) : url[k] # "/"

\* C23: the parser maps https://github.com/acme/widgets, the same with .git
\* and git@github.com:acme/widgets.git to owner acme and repo widgets, and
\* fails for every input that has neither accepted shape.
C23_ParseRepoUrl ==
    /\ parsed.url \in AcmeWidgets =>
          parsed.ret = [kind |-> "dict", owner |-> <<"acme">>, repo |-> <<"widgets">>]
    /\ (parsed.ret.kind # "-" /\ ~Accepted(Strip(parsed.url))) => parsed.ret.kind \in {"raised", "none"}


\* C24: for a description of one paragraph of plain text s (the
\* concatenation of its text nodes), flattening, wrapping the result in the
\* minimal doc/paragraph/text structure and flattening again gives s.
C24_FlattenRoundTrip ==
    adf # NoAdf => adf.again = Concat(adf.nodes)


\* C25: the JQL of an issue search is `project = {key}`, then
\* ` AND status = '{status}'` exactly when a status filter (a status name)
\* is given, then ` ORDER BY updated DESC`.
C25_JqlShape ==
    jql # NoJql =>
       jql.text = <<"project = ", jql.key>>
                  \o (IF jql.status.given /\ jql.status.val # ""
                      THEN <<" AND status = '", jql.status.val, "'">>
                      ELSE <<>>)
                  \o <<" ORDER BY ", "updated", " DESC">>


\* C26: while a request is between `async with repo_analyzer` and the end
\* of its GitHub calls, the session of the shared analyzer is the one this
\* request opened, and it is open: no other request closes or replaces it.
C26_SessionStaysMine ==
    \A r \in Requests :
       analysis[r].pc \in {"info", "gather", "file"} =>
          session.owner = r /\ session.open


C28_AnalyzedOnlyAfterScan ==
    \A c \in Callers :
       http[c].repository_analyzed => req[c].scan = "ok"


\* the URLs a request asks for in its next step
StepUrls(a) ==
    CASE a.pc = "info" -> {<<"repo", 0>>}
      [] a.pc = "gather" -> {<<"languages", 0>>, <<"contents", 0>>}
      [] a.pc = "file" -> {<<"file", a.file>>}
      [] OTHER -> {}

\* C29: a body served from the cache was stored for the same URL less than
\* 300 s earlier, an entry is written only with the time of a 200 answer,
\* and 403, 404 and failed requests neither create nor overwrite an entry.
C29_CacheServesFresh200 ==
    /\ [][\A r \in Requests :
            (analysis'[r] # analysis[r] /\ analysis'[r].cached) =>
               \E u \in StepUrls(analysis[r]) :
                  repo_cache[u] # NoEntry /\ now - repo_cache[u] < CACHE_SECONDS]_vars
    /\ [][\A u \in GitUrls : repo_cache'[u] # repo_cache[u] => repo_cache'[u] = now]_vars
    /\ [](\A r \in Requests, u \in GitUrls, answer \in GitAnswers \ {"200"} :
            ApiRequest(ApiState(r), u, answer).cache = repo_cache)

C29_Witness ==
    \E r \in Requests :
       /\ analysis[r].pc = "gather" /\ analysis[r].cached
       /\ repo_cache[<<"repo", 0>>] = 0 /\ now = 299
       /\ rate_limit_delay > INITIAL_RATE_LIMIT_DELAY


\* the fields an analysis carries besides those of an analysis parsed from a
\* Granite answer
AnalysisFields ==
    {"validation_status", "completeness_score", "merge_recommendation", "can_merge",
     "missing_requirements", "suggestions", "code_quality_issues", "merge_blockers",
     "feedback", "analysis_timestamp", "pr_summary"}
SummaryFields == {"addresses_ticket", "code_quality", "ready_for_merge", "risk_level"}
TagFields(a) ==
    (DOMAIN a \ AnalysisFields) \cup (DOMAIN a.pr_summary \ SummaryFields)

\* C30: a PR-validation result that comes from the heuristic fallback (the
\* Granite call failed or gave a blank answer) carries a tag, a field an
\* LLM-backed result does not have, that marks it as heuristic or
\* low-confidence.
C30_FallbackIsTagged ==
    \A c \in Callers :
       (op[c] = "pr" /\ validation[c].status = 200 /\ IsBlank(gen_ret[c].val)) =>
          TagFields(validation[c].analysis) # {}

====
